---- MODULE Spec2Model ----
(***************************************************************************)
(* Theme coordinator (static/js/theme.js, static/js/theme-toggle.js) and   *)
(* responsive layout coordinator (responsive manager, setSidebarVisibility *)
(* and toggleSidebar) of the dashboard front end, as state machines.       *)
(*                                                                         *)
(* A page is a browser tab: scripts are loaded (state after construction), *)
(* DOMContentLoaded runs each manager's init(), and afterwards API calls   *)
(* and browser events run one handler at a time (single UI thread).        *)
(***************************************************************************)
EXTENDS Integers, Sequences, FiniteSets, TLC

VARIABLES
    scripts,        \* theme scripts of the page, in load order
    pc,             \* per theme manager: "absent" | "loaded" | "ready" | "failed"
    dataTheme,      \* documentElement's data-theme attribute: Null | "dark"
    stored,         \* localStorage item 'theme': Null | a string
    currentTheme,   \* theme-toggle.js: ThemeManager.currentTheme (cache)
    toggleButton,   \* theme.js: this.toggleButton, by what it displays
    themeToggleEl,  \* the page's #themeToggle element, by what it displays
    prefersDark,    \* OS colour scheme, (prefers-color-scheme: dark) matches
    storageFault,   \* "none" | "quota" (setItem throws) | "denied" (all throw)
    last,           \* history: the operation that produced this state
    last2,          \* history: the operation before it (op, manager, theme before)
    noChoice,       \* history: the page was loaded with no stored value and
                    \* no API call or toggle click has happened since
    innerWidth,     \* window.innerWidth
    currentDevice,  \* ResponsiveManager.currentDevice
    rmReady,        \* ResponsiveManager.init() has run (listeners bound)
    resizeTimer,    \* resize timeouts pending
    elements,       \* which of sidebar, overlay, mobile toggle, content exist
    sidebarOpen,    \* the sidebar carries the classes 'open' and 'show'
    overlayVisible, \* #sidebarOverlay carries the class 'visible'
    body,           \* classes of document.body set by the layout code
    cardStyle,      \* inline margin/padding of .card elements, by who set it
    statCardStyle,  \* inline margin/padding of .stat-card elements
    btnStyle,       \* inline style of .btn elements: [size, minHeight]
    wrappers,       \* table-wrapper divs around each .table
    rlast,          \* history: the layout operation that produced this state
    band,           \* history: the class init() recorded, while it is still the
                    \* recorded class, and the policies init/handleResize applied
    burst           \* history: the resize events of the latest burst and the
                    \* timeouts expired since it began

themeVars == <<scripts, pc, dataTheme, stored, currentTheme, toggleButton,
               themeToggleEl, prefersDark, storageFault, last, last2,
               noChoice>>

layoutVars == <<innerWidth, currentDevice, rmReady, resizeTimer, elements,
                sidebarOpen, overlayVisible, body, cardStyle, statCardStyle,
                btnStyle, wrappers, rlast, band, burst>>

vars == <<themeVars, layoutVars>>

----------------------------------------------------------------------------
(* Values *)

Null == "null"
TJ == "theme.js"
TT == "theme-toggle.js"
Managers == {TJ, TT}

\* keys of ThemeManager.themes
Themes == {"light", "dark"}
\* arguments callers pass to setTheme: the two themes and an unknown name
ThemeArgs == Themes \cup {"blue"}

NoOp == [op |-> "none", m |-> Null, theme |-> Null, save |-> FALSE,
         pre |-> [dataTheme |-> Null, stored |-> Null, currentTheme |-> "light",
                  toggleButton |-> "undefined", themeToggleEl |-> "missing",
                  pc |-> [m \in Managers |-> "absent"]],
         threw |-> {}, emitted |-> <<>>]

----------------------------------------------------------------------------
(* The page state a handler runs on, as one record: the variables plus the   *)
(* handler's exception in flight (threw), the exceptions of finished         *)
(* handlers (errs) and the themeChanged events dispatched (emitted).         *)

PageState ==
    [dataTheme |-> dataTheme, stored |-> stored, currentTheme |-> currentTheme,
     toggleButton |-> toggleButton, themeToggleEl |-> themeToggleEl, pc |-> pc,
     fault |-> storageFault, threw |-> "none", errs |-> {}, emitted |-> <<>>]

Snapshot(st) ==
    [dataTheme |-> st.dataTheme, stored |-> st.stored,
     currentTheme |-> st.currentTheme, toggleButton |-> st.toggleButton,
     themeToggleEl |-> st.themeToggleEl, pc |-> st.pc]

Throw(st, e) == [st EXCEPT !.threw = e]

\* a handler returned to the event loop: its exception, if any, is reported
Absorb(st, m) ==
    IF st.threw = "none" THEN st
    ELSE [st EXCEPT !.errs = @ \cup {<<m, st.threw>>}, !.threw = "none"]

----------------------------------------------------------------------------
(* localStorage *)

ReadThrows(st) == st.fault = "denied"
WriteThrows(st) == st.fault \in {"quota", "denied"}

\* localStorage.setItem('theme', value)
SetItem(st, value) ==
    IF WriteThrows(st) THEN Throw(st, "StorageError")
    ELSE [st EXCEPT !.stored = value]

\* localStorage.getItem('theme') || 'light'
SavedTheme(st) == IF st.stored = Null THEN "light" ELSE st.stored

----------------------------------------------------------------------------
(* getCurrentTheme *)

\* theme.js: document.documentElement.getAttribute('data-theme') || 'light'
GetCurrentThemeJS(st) == IF st.dataTheme = Null THEN "light" ELSE st.dataTheme

\* theme-toggle.js: this.currentTheme
GetCurrentThemeTT(st) == st.currentTheme

GetCurrentTheme(st, m) ==
    IF m = TJ THEN GetCurrentThemeJS(st) ELSE GetCurrentThemeTT(st)

\* document.dispatchEvent(new CustomEvent('themeChanged', {detail: {theme}}))
\* (the only listener logs the payload); cur is what getCurrentTheme() of the
\* dispatching manager returns while the event is dispatched
DispatchThemeChange(st, m, theme) ==
    [st EXCEPT !.emitted =
        Append(@, [by |-> m, theme |-> theme, cur |-> GetCurrentTheme(st, m)])]

----------------------------------------------------------------------------
(* theme.js *)

\* themeConfig = this.themes[theme] is undefined for an unknown name, and
\* themeConfig.icon then raises a TypeError (the created button holds an <i>)
UpdateToggleButton(st, theme) ==
    IF st.toggleButton = "undefined" THEN st
    ELSE IF theme \notin Themes THEN Throw(st, "TypeError")
    ELSE [st EXCEPT !.toggleButton = theme]

\* faulty variant: the old attribute is never removed
SetThemeJSKeepsAttr(st, theme, save) ==
    LET cur == st.dataTheme
    IN  IF cur = theme THEN st
        ELSE
          LET applied == IF theme = "dark"
                         THEN [st EXCEPT !.dataTheme = "dark"] ELSE st
              button  == UpdateToggleButton(applied, theme)
              saved   == IF button.threw # "none" THEN button
                         ELSE IF save THEN SetItem(button, theme) ELSE button
          IN  IF saved.threw # "none" THEN saved
              ELSE DispatchThemeChange(saved, TJ, theme)

SetThemeJS(st, theme, save) ==
    LET cur == st.dataTheme
    IN  IF cur = theme THEN st
        ELSE
          LET removed == IF cur # Null THEN [st EXCEPT !.dataTheme = Null] ELSE st
              applied == IF theme = "dark"
                         THEN [removed EXCEPT !.dataTheme = "dark"] ELSE removed
              button  == UpdateToggleButton(applied, theme)
              saved   == IF button.threw # "none" THEN button
                         ELSE IF save THEN SetItem(button, theme) ELSE button
          IN  IF saved.threw # "none" THEN saved
              ELSE DispatchThemeChange(saved, TJ, theme)

\* faulty variant: the complement is computed from the wrong comparison
ToggleThemeJSStuck(st) ==
    LET cur == GetCurrentThemeJS(st)
        newTheme == IF cur = "dark" THEN "dark" ELSE "light"
    IN  SetThemeJS(st, newTheme, TRUE)

ToggleThemeJS(st) ==
    LET cur == GetCurrentThemeJS(st)
        newTheme == IF cur = "light" THEN "dark" ELSE "light"
    IN  SetThemeJS(st, newTheme, TRUE)

LoadThemeJS(st) ==
    IF ReadThrows(st) THEN Throw(st, "StorageError")
    ELSE SetThemeJS(st, SavedTheme(st), FALSE)

\* the button is created with the sun icon and the label of no theme
CreateThemeToggle(st) == [st EXCEPT !.toggleButton = "initial"]

\* click and (prefers-color-scheme: dark) change listeners are registered
BindEvents(st, m) == [st EXCEPT !.pc[m] = "ready"]

InitJS(st) ==
    LET loaded == LoadThemeJS(st)
    IN  IF loaded.threw # "none" THEN [loaded EXCEPT !.pc[TJ] = "failed"]
        ELSE BindEvents(CreateThemeToggle(loaded), TJ)

ResetJS(st) ==
    IF ReadThrows(st) THEN Throw(st, "StorageError")
    ELSE SetThemeJS([st EXCEPT !.stored = Null], "light", TRUE)

----------------------------------------------------------------------------
(* theme-toggle.js *)

UpdateUI(st) ==
    IF st.themeToggleEl = "missing" THEN st
    ELSE [st EXCEPT !.themeToggleEl = st.currentTheme]

SetThemeTT(st, theme, save) ==
    IF theme \notin Themes THEN st
    ELSE
      LET oldTheme == st.currentTheme
          removed == IF oldTheme = "dark" THEN [st EXCEPT !.dataTheme = Null] ELSE st
          applied == IF theme = "dark"
                     THEN [removed EXCEPT !.dataTheme = "dark"] ELSE removed
          cached  == [applied EXCEPT !.currentTheme = theme]
          saved   == IF save THEN SetItem(cached, theme) ELSE cached
      IN  IF saved.threw # "none" THEN saved
          ELSE DispatchThemeChange(UpdateUI(saved), TT, theme)

ToggleThemeTT(st) ==
    LET newTheme == IF st.currentTheme = "light" THEN "dark" ELSE "light"
    IN  SetThemeTT(st, newTheme, TRUE)

LoadThemeTT(st) ==
    IF ReadThrows(st) THEN Throw(st, "StorageError")
    ELSE SetThemeTT(st, SavedTheme(st), FALSE)

InitTT(st) ==
    LET loaded == LoadThemeTT(st)
    IN  IF loaded.threw # "none" THEN [loaded EXCEPT !.pc[TT] = "failed"]
        ELSE UpdateUI(BindEvents(loaded, TT))

----------------------------------------------------------------------------
(* Both managers, by name *)

SetThemeOf(st, m, theme, save) ==
    IF m = TJ THEN SetThemeJS(st, theme, save) ELSE SetThemeTT(st, theme, save)

ToggleThemeOf(st, m) ==
    IF m = TJ THEN ToggleThemeJS(st) ELSE ToggleThemeTT(st)

InitOf(st, m) == IF m = TJ THEN InitJS(st) ELSE InitTT(st)

\* faulty variant: the listener follows the OS whether or not a value is stored
MediaChangeAlways(st, m, matches) ==
    IF ReadThrows(st) THEN Throw(st, "StorageError")
    ELSE SetThemeOf(st, m, IF matches THEN "dark" ELSE "light", TRUE)

\* the mediaQuery 'change' listener of manager m
MediaChange(st, m, matches) ==
    IF ReadThrows(st) THEN Throw(st, "StorageError")
    ELSE IF st.stored = Null
         THEN SetThemeOf(st, m, IF matches THEN "dark" ELSE "light", TRUE)
         ELSE st

----------------------------------------------------------------------------
(* Events delivered to every manager of the page, in registration order    *)
(* (the order the scripts were loaded); one listener's exception does not  *)
(* stop the next listener.                                                 *)

RECURSIVE InitAll(_, _)
InitAll(st, ms) ==
    IF ms = <<>> THEN st
    ELSE InitAll(Absorb(InitOf(st, Head(ms)), Head(ms)), Tail(ms))

RECURSIVE MediaChangeAll(_, _, _)
MediaChangeAll(st, ms, matches) ==
    IF ms = <<>> THEN st
    ELSE LET m == Head(ms)
             next == IF st.pc[m] = "ready"
                     THEN Absorb(MediaChange(st, m, matches), m) ELSE st
         IN  MediaChangeAll(next, Tail(ms), matches)

----------------------------------------------------------------------------
(* Actions *)

Loaded == {scripts[i] : i \in DOMAIN scripts}

\* the handler's result becomes the page; the history records the call
Commit(st, op, m, theme, save) ==
    /\ dataTheme' = st.dataTheme
    /\ stored' = st.stored
    /\ currentTheme' = st.currentTheme
    /\ toggleButton' = st.toggleButton
    /\ themeToggleEl' = st.themeToggleEl
    /\ pc' = st.pc
    /\ last' = [op |-> op, m |-> m, theme |-> theme, save |-> save,
                pre |-> Snapshot(PageState), threw |-> st.errs,
                emitted |-> st.emitted]
    /\ last2' = [op |-> last.op, m |-> last.m, pre |-> last.pre]
    /\ noChoice' = (noChoice /\ op \in {"init", "osChange"})
    /\ UNCHANGED <<scripts, storageFault>>
    /\ UNCHANGED layoutVars

\* DOMContentLoaded: every loaded manager's init()
DOMContentLoaded ==
    /\ \A m \in Loaded : pc[m] = "loaded"
    /\ Commit(InitAll(PageState, scripts), "init", Null, Null, FALSE)
    /\ UNCHANGED prefersDark

\* window.ThemeManager.setTheme(theme, save), callable once the script is loaded
SetTheme(m, theme, save) ==
    /\ m \in Loaded
    /\ Commit(Absorb(SetThemeOf(PageState, m, theme, save), m),
              "setTheme", m, theme, save)
    /\ UNCHANGED prefersDark

\* ThemeManager.toggleTheme(), window.toggleTheme(), App.toggleTheme()
ToggleTheme(m) ==
    /\ m \in Loaded
    /\ Commit(Absorb(ToggleThemeOf(PageState, m), m), "toggleTheme", m, Null, TRUE)
    /\ UNCHANGED prefersDark

\* a click on the toggle control, once init() has bound the listener to it
ClickToggle(m) ==
    /\ m \in Loaded
    /\ pc[m] = "ready"
    /\ IF m = TJ THEN toggleButton # "undefined" ELSE themeToggleEl # "missing"
    /\ Commit(Absorb(ToggleThemeOf(PageState, m), m), "click", m, Null, TRUE)
    /\ UNCHANGED prefersDark

\* theme.js: ThemeManager.reset()
Reset ==
    /\ TJ \in Loaded
    /\ Commit(Absorb(ResetJS(PageState), TJ), "reset", TJ, Null, TRUE)
    /\ UNCHANGED prefersDark

\* the OS colour scheme changes: 'change' event with e.matches = new value
OSChange ==
    /\ prefersDark' = ~prefersDark
    /\ Commit(MediaChangeAll(PageState, scripts, ~prefersDark), "osChange", Null,
              IF ~prefersDark THEN "dark" ELSE "light", TRUE)

ThemeNext ==
    \/ DOMContentLoaded
    \/ \E m \in Managers, theme \in ThemeArgs, save \in BOOLEAN : SetTheme(m, theme, save)
    \/ \E m \in Managers : ToggleTheme(m)
    \/ \E m \in Managers : ClickToggle(m)
    \/ Reset
    \/ OSChange

----------------------------------------------------------------------------
(* Responsive layout coordinator: ResponsiveManager, setSidebarVisibility  *)
(* and toggleSidebar.                                                      *)

\* ResponsiveManager.breakpoints
BreakpointMobile == 768
BreakpointTablet == 1024
\* setSidebarVisibility: isMobile = window.innerWidth <= 1024
OverlayMaxWidth == 1024

Devices == {"mobile", "tablet", "desktop"}

\* viewport widths the window is resized to
Widths == {320, 767, 768, 1023, 1024, 1920}

\* how many times a table may be wrapped before the model stops
MaxWrap == 2

\* how many policy applications are counted for one recorded class
MaxPolicies == 2

NoBand == [device |-> Null, count |-> 0]
MaxBurst == 3
NoBurst == [from |-> Null, widths |-> <<>>, runs |-> 0]

AllElements == {"sidebar", "overlay", "mobileToggle", "content"}

NoStyle == [size |-> "", minHeight |-> ""]

\* the layout state a handler runs on, with the policies it applied and the
\* exception it raised
LayoutState ==
    [innerWidth |-> innerWidth, currentDevice |-> currentDevice,
     elements |-> elements, sidebarOpen |-> sidebarOpen,
     overlayVisible |-> overlayVisible, body |-> body, cardStyle |-> cardStyle,
     statCardStyle |-> statCardStyle, btnStyle |-> btnStyle,
     wrappers |-> wrappers, applied |-> <<>>, threw |-> "none"]

LayoutSnapshot(ls) ==
    [innerWidth |-> ls.innerWidth, currentDevice |-> ls.currentDevice,
     sidebarOpen |-> ls.sidebarOpen, overlayVisible |-> ls.overlayVisible,
     body |-> ls.body, cardStyle |-> ls.cardStyle,
     statCardStyle |-> ls.statCardStyle, btnStyle |-> ls.btnStyle,
     wrappers |-> ls.wrappers]

\* faulty variant: the thresholds belong to the lower class
DetectDeviceInclusive(width) ==
    IF width <= BreakpointMobile THEN "mobile"
    ELSE IF width <= BreakpointTablet THEN "tablet"
    ELSE "desktop"

\* the class detectDevice records for window.innerWidth = width
DetectDevice(width) ==
    IF width < BreakpointMobile THEN "mobile"
    ELSE IF width < BreakpointTablet THEN "tablet"
    ELSE "desktop"

DetectDeviceIn(ls) == [ls EXCEPT !.currentDevice = DetectDevice(ls.innerWidth)]

SetSidebarVisibility(ls, shouldOpen) ==
    IF "sidebar" \notin ls.elements THEN ls
    ELSE
      LET isMobile == ls.innerWidth <= OverlayMaxWidth
          opened == [ls EXCEPT !.sidebarOpen = shouldOpen]
          overlaid == IF "overlay" \in ls.elements
                      THEN [opened EXCEPT !.overlayVisible = shouldOpen /\ isMobile]
                      ELSE opened
      IN  IF shouldOpen /\ isMobile
          THEN [overlaid EXCEPT !.body = @ \cup {"sidebar-open"}]
          ELSE [overlaid EXCEPT !.body = @ \ {"sidebar-open"}]

\* window.toggleSidebar(force); force is "true", "false" or anything that is
\* not a boolean ("undefined")
\* faulty variant: a boolean argument is ignored
ToggleSidebarFlips(ls, force) ==
    IF "sidebar" \notin ls.elements THEN ls
    ELSE SetSidebarVisibility(ls, ~ls.sidebarOpen)

ToggleSidebar(ls, force) ==
    IF "sidebar" \notin ls.elements THEN ls
    ELSE LET shouldOpen == IF force \in {"true", "false"}
                           THEN force = "true" ELSE ~ls.sidebarOpen
         IN  SetSidebarVisibility(ls, shouldOpen)

HideSidebar(ls) == ToggleSidebar(ls, "false")

\* the class 'compact' it removes is set by no code that runs
ShowFullSidebar(ls) ==
    IF "sidebar" \notin ls.elements THEN ls ELSE ToggleSidebar(ls, "true")

OptimizeCardsForMobile(ls) ==
    IF "content" \notin ls.elements THEN ls
    ELSE [ls EXCEPT !.cardStyle = "mobile", !.statCardStyle = "mobile"]

OptimizeCardsForTablet(ls) ==
    IF "content" \notin ls.elements THEN ls ELSE [ls EXCEPT !.cardStyle = "tablet"]

OptimizeButtonsForMobile(ls) ==
    IF "content" \notin ls.elements THEN ls
    ELSE [ls EXCEPT !.btnStyle = [size |-> "mobile", minHeight |-> "44px"]]

OptimizeButtonsForTablet(ls) ==
    IF "content" \notin ls.elements THEN ls
    ELSE [ls EXCEPT !.btnStyle.size = "tablet"]

\* every .table gets one more wrapper div around it
OptimizeTablesForMobile(ls) ==
    IF "content" \notin ls.elements THEN ls
    ELSE [ls EXCEPT !.wrappers = @ + 1]

RestoreDefaultLayout(ls) ==
    LET styled == IF "content" \notin ls.elements THEN ls
                  ELSE [ls EXCEPT !.cardStyle = "", !.btnStyle = NoStyle]
    IN  [styled EXCEPT !.body = @ \ {"mobile-device", "tablet-device"}]

Applied(ls, policy) == [ls EXCEPT !.applied = Append(@, policy)]

\* faulty variant: the markers of the other classes stay on the body
OptimizeForMobileKeepsMarkers(ls) ==
    LET a == HideSidebar(Applied(ls, "mobile"))
        b == OptimizeCardsForMobile(a)
        c == OptimizeButtonsForMobile(b)
        d == OptimizeTablesForMobile(c)
    IN  [d EXCEPT !.body = @ \cup {"mobile-device"}]

OptimizeForMobile(ls) ==
    LET a == HideSidebar(Applied(ls, "mobile"))
        b == OptimizeCardsForMobile(a)
        c == OptimizeButtonsForMobile(b)
        d == OptimizeTablesForMobile(c)
    IN  [d EXCEPT !.body = (@ \cup {"mobile-device"})
                              \ {"tablet-device", "desktop-device"}]

OptimizeForTablet(ls) ==
    LET a == ShowFullSidebar(Applied(ls, "tablet"))
        b == OptimizeCardsForTablet(a)
        c == OptimizeButtonsForTablet(b)
    IN  [c EXCEPT !.body = (@ \cup {"tablet-device"})
                              \ {"mobile-device", "desktop-device"}]

OptimizeForDesktop(ls) ==
    LET a == ShowFullSidebar(Applied(ls, "desktop"))
        b == RestoreDefaultLayout(a)
    IN  [b EXCEPT !.body = (@ \cup {"desktop-device"})
                              \ {"mobile-device", "tablet-device"}]

OptimizeFor(ls, device) ==
    CASE device = "mobile" -> OptimizeForMobile(ls)
      [] device = "tablet" -> OptimizeForTablet(ls)
      [] OTHER -> OptimizeForDesktop(ls)

OptimizeForDevice(ls) == OptimizeFor(ls, ls.currentDevice)

\* faulty variant: the policy is applied on every resize
HandleResizeAlways(ls) == OptimizeForDevice(DetectDeviceIn(ls))

HandleResize(ls) ==
    LET oldDevice == ls.currentDevice
        detected == DetectDeviceIn(ls)
    IN  IF oldDevice # detected.currentDevice THEN OptimizeForDevice(detected)
        ELSE detected

\* init: detectDevice, bindEvents, optimizeForDevice
ResponsiveInit(ls) == OptimizeForDevice(DetectDeviceIn(ls))

\* the document 'click' listener; target is "sidebar", "mobileToggle" or
\* "outside".  With no .mobile-toggle element, mobileToggle.contains raises.
DocumentClick(ls, target) ==
    IF ls.currentDevice = "mobile" /\ "sidebar" \in ls.elements /\ ls.sidebarOpen
    THEN IF target = "sidebar" THEN ls
         ELSE IF "mobileToggle" \notin ls.elements
              THEN [ls EXCEPT !.threw = "TypeError"]
              ELSE IF target = "mobileToggle" THEN ls ELSE HideSidebar(ls)
    ELSE ls

\* the document 'keydown' listener, for e.key = 'Escape'
KeydownEscape(ls) ==
    IF ls.currentDevice = "mobile" THEN HideSidebar(ls) ELSE ls

----------------------------------------------------------------------------
(* Layout actions *)

\* what is kept of the operation before the last one: the policies it applied
\* and, for a toggleSidebar call, its argument and the sidebar state it found
NoPrev == [applied |-> <<>>, force |-> Null, sidebarOpen |-> FALSE]

PrevOf(r) ==
    IF r.op = "toggleSidebar"
    THEN [applied |-> r.applied, force |-> r.arg, sidebarOpen |-> r.pre.sidebarOpen]
    ELSE [NoPrev EXCEPT !.applied = r.applied]

\* init() opens the count; it runs while the recorded class stays the one
\* init() recorded, over the policies init() and handleResize() apply
BandAfter(ls, op) ==
    IF op = "init" THEN [device |-> ls.currentDevice, count |-> Len(ls.applied)]
    ELSE IF band.device = Null \/ ls.currentDevice # band.device THEN NoBand
    ELSE IF op = "handleResize"
         THEN [band EXCEPT !.count = @ + Len(ls.applied)]
         ELSE band

LayoutCommit(ls, op, arg) ==
    /\ ls.wrappers <= MaxWrap
    /\ BandAfter(ls, op).count <= MaxPolicies
    /\ band' = BandAfter(ls, op)
    /\ innerWidth' = ls.innerWidth
    /\ currentDevice' = ls.currentDevice
    /\ sidebarOpen' = ls.sidebarOpen
    /\ overlayVisible' = ls.overlayVisible
    /\ body' = ls.body
    /\ cardStyle' = ls.cardStyle
    /\ statCardStyle' = ls.statCardStyle
    /\ btnStyle' = ls.btnStyle
    /\ wrappers' = ls.wrappers
    /\ rlast' = [op |-> op, arg |-> arg, pre |-> LayoutSnapshot(LayoutState),
                 applied |-> ls.applied, threw |-> ls.threw,
                 prev |-> PrevOf(rlast)]
    /\ UNCHANGED elements
    /\ UNCHANGED themeVars

\* DOMContentLoaded: ResponsiveManager.init()
ResponsiveReady ==
    /\ ~rmReady
    /\ rmReady' = TRUE
    /\ LayoutCommit(ResponsiveInit(LayoutState), "init", Null)
    /\ UNCHANGED <<resizeTimer, burst>>

\* faulty variant: the pending timeout is not cleared
RestartTimerNoClear(pending) == pending + 1

\* clearTimeout(resizeTimer); resizeTimer = setTimeout(...): the timeout the
\* listener holds is cancelled if it is still pending, and a new one starts
RestartTimer(pending) == (IF pending > 0 THEN pending - 1 ELSE 0) + 1

\* the window is resized to width w; the bound listener restarts the timer
ResizeEvent(w) ==
    /\ w # innerWidth
    /\ resizeTimer' = IF rmReady THEN RestartTimer(resizeTimer) ELSE resizeTimer
    /\ LayoutCommit([LayoutState EXCEPT !.innerWidth = w], "resize", Null)
    /\ UNCHANGED rmReady

\* the 250 ms timeout expires: handleResize()
TimerExpires ==
    /\ resizeTimer > 0
    /\ resizeTimer' = resizeTimer - 1
    /\ LayoutCommit(HandleResize(LayoutState), "handleResize", "timer")
    /\ UNCHANGED rmReady

WindowResize(w) == ResizeEvent(w) /\ UNCHANGED burst

ResizeTimerFires == TimerExpires /\ UNCHANGED burst

\* the same two events with the burst they belong to written down: an event
\* that finds a timeout pending continues the burst, any other starts one
BurstResize(w) ==
    /\ ResizeEvent(w)
    /\ burst' = IF ~rmReady THEN burst
                ELSE IF resizeTimer > 0
                     THEN [burst EXCEPT !.widths = Append(@, w)]
                     ELSE [from |-> currentDevice, widths |-> <<w>>, runs |-> 0]
    /\ Len(burst'.widths) <= MaxBurst

BurstTimerFires ==
    /\ TimerExpires
    /\ burst' = [burst EXCEPT !.runs = @ + 1]

\* ResponsiveManager.handleResize() called directly
CallHandleResize ==
    /\ LayoutCommit(HandleResize(LayoutState), "handleResize", "call")
    /\ UNCHANGED <<rmReady, resizeTimer, burst>>

\* ResponsiveManager.detectDevice() called directly
CallDetectDevice ==
    /\ LayoutCommit(DetectDeviceIn(LayoutState), "detectDevice", Null)
    /\ UNCHANGED <<rmReady, resizeTimer, burst>>

\* ResponsiveManager.optimizeForMobile / Tablet / Desktop called directly
CallOptimizeFor(device) ==
    /\ LayoutCommit(OptimizeFor(LayoutState, device), "optimizeFor", device)
    /\ UNCHANGED <<rmReady, resizeTimer, burst>>

\* window.toggleSidebar(force), ResponsiveManager.toggleSidebar(force)
CallToggleSidebar(force) ==
    /\ LayoutCommit(ToggleSidebar(LayoutState, force), "toggleSidebar", force)
    /\ UNCHANGED <<rmReady, resizeTimer, burst>>

\* a click on .mobile-toggle: its listener toggles the sidebar, then the
\* click reaches the document listener
ClickMobileToggle ==
    /\ rmReady
    /\ "mobileToggle" \in elements
    /\ LayoutCommit(DocumentClick(ToggleSidebar(LayoutState, "undefined"),
                                  "mobileToggle"), "clickToggle", Null)
    /\ UNCHANGED <<rmReady, resizeTimer, burst>>

\* a click inside the sidebar or elsewhere on the page
ClickDocument(target) ==
    /\ rmReady
    /\ target = "sidebar" => "sidebar" \in elements
    /\ LayoutCommit(DocumentClick(LayoutState, target), "click", target)
    /\ UNCHANGED <<rmReady, resizeTimer, burst>>

PressEscape ==
    /\ rmReady
    /\ LayoutCommit(KeydownEscape(LayoutState), "escape", Null)
    /\ UNCHANGED <<rmReady, resizeTimer, burst>>

LayoutNext ==
    \/ ResponsiveReady
    \/ \E w \in Widths : WindowResize(w)
    \/ ResizeTimerFires
    \/ CallHandleResize
    \/ CallDetectDevice
    \/ \E device \in Devices : CallOptimizeFor(device)
    \/ \E force \in {"true", "false", "undefined"} : CallToggleSidebar(force)
    \/ ClickMobileToggle
    \/ \E target \in {"sidebar", "outside"} : ClickDocument(target)
    \/ PressEscape

----------------------------------------------------------------------------
(* Pages *)

\* a freshly loaded page with the theme scripts ss and storage behaviour f
ThemePage(ss, f) ==
    /\ scripts = ss
    /\ pc = [m \in Managers |->
                IF \E i \in DOMAIN ss : ss[i] = m THEN "loaded" ELSE "absent"]
    /\ dataTheme = Null
    /\ stored \in {Null} \cup ThemeArgs
    /\ currentTheme = "light"
    /\ toggleButton = "undefined"
    /\ themeToggleEl \in
          IF \E i \in DOMAIN ss : ss[i] = TT THEN {"missing", "initial"} ELSE {"missing"}
    /\ prefersDark \in BOOLEAN
    /\ storageFault = f
    /\ last = NoOp
    /\ last2 = [op |-> "none", m |-> Null, pre |-> NoOp.pre]
    /\ noChoice = (stored = Null)

\* a freshly loaded page with the elements els, at any width
LayoutPage(els) ==
    /\ innerWidth \in Widths
    /\ currentDevice = "desktop"
    /\ rmReady = FALSE
    /\ resizeTimer = 0
    /\ elements = els
    /\ sidebarOpen = FALSE
    /\ overlayVisible = FALSE
    /\ body = {}
    /\ cardStyle = ""
    /\ statCardStyle = ""
    /\ btnStyle = NoStyle
    /\ wrappers = 0
    /\ rlast = [op |-> "none", arg |-> Null, pre |-> LayoutSnapshot(LayoutState),
                applied |-> <<>>, threw |-> "none",
                prev |-> NoPrev]
    /\ band = NoBand
    /\ burst = NoBurst

\* the part of the page the other coordinator owns, left as loaded
ThemeIdle == ThemePage(<<TJ>>, "none") /\ stored = Null /\ ~prefersDark
LayoutIdle == LayoutPage(AllElements) /\ innerWidth = 1920

\* a page that loads one of the two theme scripts; storage works
Init == LayoutIdle /\ \E m \in Managers : ThemePage(<<m>>, "none")

\* a page that loads one theme script; storage is full or disabled
InitFault ==
    LayoutIdle /\ \E m \in Managers, f \in {"quota", "denied"} : ThemePage(<<m>>, f)

\* a page that loads both theme scripts, in either order; storage works
InitBoth == LayoutIdle /\ \E ss \in {<<TJ, TT>>, <<TT, TJ>>} : ThemePage(ss, "none")

\* a page with any of sidebar, overlay, mobile toggle and content present
InitLayout == ThemeIdle /\ \E els \in SUBSET AllElements : LayoutPage(els)

\* a page without tables, cards and buttons
InitDebounce ==
    ThemeIdle /\ \E els \in SUBSET (AllElements \ {"content"}) : LayoutPage(els)

\* the browser alone acts on the page: DOMContentLoaded, resize events and
\* the expiry of the resize timeout
DebounceNext ==
    \/ ResponsiveReady
    \/ \E w \in Widths : BurstResize(w)
    \/ BurstTimerFires

Next == ThemeNext \/ LayoutNext \/ DebounceNext

Spec == Init /\ [][ThemeNext]_vars
SpecFault == InitFault /\ [][ThemeNext]_vars
SpecBoth == InitBoth /\ [][ThemeNext]_vars
SpecLayout == InitLayout /\ [][LayoutNext]_vars

\* a pending timeout expires
SpecDebounce ==
    InitDebounce /\ [][DebounceNext]_vars /\ WF_vars(BurstTimerFires)

----------------------------------------------------------------------------
(* Properties of the theme coordinator.  Each is a predicate on the state  *)
(* an operation leaves behind: last names the operation and holds the page *)
(* it ran on (last.pre).                                                   *)

IsToggle(h) == h.op \in {"toggleTheme", "click"}

Complement(t) == IF t = "light" THEN "dark" ELSE "light"

Listening == {m \in Loaded : last.pre.pc[m] = "ready"}

\* C1: with no stored value an OS change to dark makes the current theme of
\* every listening manager dark; with a stored value an OS change event (to
\* dark or to light) changes neither the theme nor the stored value.
C1_Precedence ==
    last.op = "osChange" =>
        /\ (last.pre.stored = Null /\ last.theme = "dark") =>
              \A m \in Listening : GetCurrentTheme(PageState, m) = "dark"
        /\ last.pre.stored # Null =>
              /\ dataTheme = last.pre.dataTheme
              /\ currentTheme = last.pre.currentTheme
              /\ stored = last.pre.stored
              /\ last.emitted = <<>>

\* an explicit choice of light was stored, then the OS changed to dark
C1_Witness ==
    /\ last.op = "osChange" /\ last.theme = "dark"
    /\ last2.op \in {"setTheme", "toggleTheme", "click"}
    /\ last2.pre.stored = Null /\ stored = "light"
    /\ Listening # {}
    /\ \A m \in Loaded : GetCurrentTheme(PageState, m) = "light"

\* C2: after setTheme(t, persist) with t light or dark, getCurrentTheme() of
\* the same manager returns t.
C2_SetThenGet ==
    (last.op = "setTheme" /\ last.theme \in Themes) =>
        GetCurrentTheme(PageState, last.m) = last.theme

\* setTheme('light') on a dark page, in either implementation
C2_Witness ==
    /\ last.op = "setTheme" /\ last.theme = "light"
    /\ GetCurrentTheme(last.pre, last.m) = "dark"
    /\ GetCurrentTheme(PageState, last.m) = "light"

\* C3: setTheme(v, persist) with v neither light nor dark changes nothing
\* (current theme, data-theme attribute, stored value) and raises nothing.
C3_InvalidIgnored ==
    (last.op = "setTheme" /\ last.theme \notin Themes) =>
        /\ GetCurrentTheme(PageState, last.m) = GetCurrentTheme(last.pre, last.m)
        /\ dataTheme = last.pre.dataTheme
        /\ stored = last.pre.stored
        /\ last.threw = {}

\* C4: setTheme(t, persist) with t the active theme writes no stored value
\* and emits no themeChanged notification.
C4_SameThemeNoOp ==
    (/\ last.op = "setTheme" /\ last.theme \in Themes
     /\ last.theme = GetCurrentTheme(last.pre, last.m)) =>
        /\ stored = last.pre.stored
        /\ last.emitted = <<>>

\* C5: one toggleTheme() yields the complement of the current theme and
\* stores it; two in a row give back the theme before the first.
C5_ToggleInvolution ==
    /\ IsToggle(last) =>
          /\ GetCurrentTheme(PageState, last.m)
                = Complement(GetCurrentTheme(last.pre, last.m))
          /\ stored = GetCurrentTheme(PageState, last.m)
    /\ (IsToggle(last) /\ IsToggle(last2) /\ last.m = last2.m) =>
          GetCurrentTheme(PageState, last.m) = GetCurrentTheme(last2.pre, last.m)

\* two toggles in a row, starting from dark
C5_Witness ==
    /\ IsToggle(last) /\ IsToggle(last2) /\ last.m = last2.m
    /\ GetCurrentTheme(last2.pre, last.m) = "dark"
    /\ GetCurrentTheme(last.pre, last.m) = "light"
    /\ GetCurrentTheme(PageState, last.m) = "dark"

\* C6: with storage throwing, init() completes and wires its listeners, and
\* setTheme(t, TRUE) with t valid ends with theme t, the toggle control
\* updated and the notification emitted, and nothing is raised.
C6_StorageFailuresAbsorbed ==
    storageFault # "none" =>
        /\ last.op = "init" =>
              /\ \A m \in Loaded : pc[m] = "ready"
              /\ last.threw = {}
        /\ (/\ last.op = "setTheme" /\ last.theme \in Themes /\ last.save
            /\ last.theme # GetCurrentTheme(last.pre, last.m)) =>
              /\ GetCurrentTheme(PageState, last.m) = last.theme
              /\ last.threw = {}
              /\ Len(last.emitted) = 1
              /\ last.m = TJ /\ toggleButton # "undefined" => toggleButton = last.theme
              /\ last.m = TT /\ themeToggleEl # "missing" => themeToggleEl = last.theme

\* C7: after init() the current theme is the stored value if that is light
\* or dark and light otherwise, whatever the OS prefers, and the stored value
\* is what it was.
C7_InitFromStorage ==
    last.op = "init" =>
        /\ \A m \in Loaded :
              GetCurrentTheme(PageState, m)
                 = IF last.pre.stored \in Themes THEN last.pre.stored ELSE "light"
        /\ stored = last.pre.stored

\* C8: every themeChanged notification carries light or dark and the theme
\* getCurrentTheme() returns when it is emitted, and a setTheme call that
\* changes the theme emits exactly one, carrying the new theme.
C8_Notifications ==
    /\ \A i \in DOMAIN last.emitted :
          /\ last.emitted[i].theme \in Themes
          /\ last.emitted[i].theme = last.emitted[i].cur
    /\ (/\ last.op = "setTheme" /\ last.theme \in Themes /\ last.threw = {}
        /\ last.theme # GetCurrentTheme(last.pre, last.m)) =>
          /\ Len(last.emitted) = 1
          /\ last.emitted[1].theme = last.theme

\* C9: getCurrentTheme() of every loaded manager is dark exactly when the
\* document root carries data-theme = 'dark', and light otherwise.
C9_NoDrift ==
    \A m \in Loaded :
        GetCurrentTheme(PageState, m) = IF dataTheme = "dark" THEN "dark" ELSE "light"

----------------------------------------------------------------------------
(* Properties of the responsive layout coordinator *)

Detecting == rlast.op \in {"init", "handleResize", "detectDevice"}

C10_Table ==
    (320 :> "mobile") @@ (767 :> "mobile") @@ (768 :> "tablet")
    @@ (1023 :> "tablet") @@ (1024 :> "desktop") @@ (1920 :> "desktop")

\* C10: the class detectDevice records is mobile below 768, tablet from 768
\* and below 1024, desktop from 1024; widths 320, 767, 768, 1023, 1024, 1920
\* give mobile, mobile, tablet, tablet, desktop, desktop.
C10_DeviceClass ==
    Detecting =>
        /\ innerWidth < 768 => currentDevice = "mobile"
        /\ (768 <= innerWidth /\ innerWidth < 1024) => currentDevice = "tablet"
        /\ innerWidth >= 1024 => currentDevice = "desktop"
        /\ innerWidth \in DOMAIN C10_Table => currentDevice = C10_Table[innerWidth]

\* the debounced handleResize() classifies the exact threshold 1024
C10_Witness ==
    /\ rlast.op = "handleResize" /\ rlast.arg = "timer"
    /\ rlast.pre.currentDevice = "tablet"
    /\ innerWidth = 1024
    /\ currentDevice = "desktop"

\* C11: handleResize() applies a policy exactly when the class it computes
\* differs from the recorded one, and then the policy of the new class alone;
\* while the recorded class is still the one init() recorded, init() and the
\* handleResize() calls together have applied exactly one policy.
C11_ResizeGuard ==
    /\ rlast.op = "handleResize" =>
          /\ (rlast.applied # <<>>) <=> (currentDevice # rlast.pre.currentDevice)
          /\ rlast.applied # <<>> => rlast.applied = <<currentDevice>>
    /\ band.device # Null => band.count = 1

\* the debounced handleResize() ran after a resize and found the class of init()
C11_Witness ==
    /\ rlast.op = "handleResize" /\ rlast.arg = "timer"
    /\ band.device = "tablet" /\ band.count = 1
    /\ currentDevice = "tablet"
    /\ rlast.applied = <<>>

\* what a policy leaves to be seen: body markers, sidebar and overlay
\* visibility, inline styles, table wrappers
Observable(ls) ==
    [body |-> ls.body, sidebarOpen |-> ls.sidebarOpen,
     overlayVisible |-> ls.overlayVisible, cardStyle |-> ls.cardStyle,
     statCardStyle |-> ls.statCardStyle, btnStyle |-> ls.btnStyle,
     wrappers |-> ls.wrappers]

\* C12: a policy applied right after the same policy leaves the observable
\* state as the first application left it.
C12_PolicyIdempotent ==
    (rlast.applied # <<>> /\ rlast.prev.applied = rlast.applied) =>
        Observable(LayoutState) = Observable(rlast.pre)

DeviceMarkers(classes) ==
    classes \cap {"mobile-device", "tablet-device", "desktop-device"}

MarkerOf(device) ==
    CASE device = "mobile" -> "mobile-device"
      [] device = "tablet" -> "tablet-device"
      [] OTHER -> "desktop-device"

\* the body carries the marker of the recorded class and no other
MarkerMatches(ls) == DeviceMarkers(ls.body) = {MarkerOf(ls.currentDevice)}

\* an operation that applied policy c left exactly the marker of c and, where
\* there is a sidebar, hid it for mobile and showed it for tablet and desktop
C13_AfterPolicy ==
    rlast.applied # <<>> =>
        LET c == rlast.applied[Len(rlast.applied)]
        IN  /\ DeviceMarkers(body) = {MarkerOf(c)}
            /\ "sidebar" \in elements => sidebarOpen = (c # "mobile")

C14_NoOverlayOnDesktop ==
    DetectDevice(innerWidth) = "desktop" =>
        ~overlayVisible /\ "sidebar-open" \notin body

\* C15: on a page with a sidebar, toggleSidebar() flips the visibility and
\* toggleSidebar(b) sets it to b; a second toggleSidebar() right after a
\* first one restores the visibility the first one found.
C15_ToggleSidebar ==
    (rlast.op = "toggleSidebar" /\ "sidebar" \in elements) =>
        /\ rlast.arg = "undefined" => sidebarOpen = ~rlast.pre.sidebarOpen
        /\ rlast.arg = "true" => sidebarOpen
        /\ rlast.arg = "false" => ~sidebarOpen
        /\ (rlast.arg = "undefined" /\ rlast.prev.force = "undefined") =>
               sidebarOpen = rlast.prev.sidebarOpen

C15_Witness ==
    /\ rlast.op = "toggleSidebar" /\ rlast.arg = "undefined"
    /\ rlast.prev.force = "undefined" /\ rlast.prev.sidebarOpen
    /\ ~rlast.pre.sidebarOpen /\ sidebarOpen
    /\ "sidebar" \in elements /\ rmReady

\* at most one timeout is pending; a burst has a timeout pending until its
\* one handleResize run, which reads the width of the last event, applies a
\* policy exactly if that width's class is not the recorded one, and leaves
\* the class of that width recorded
C16_OneRunPerBurst ==
    /\ resizeTimer <= 1
    /\ burst.widths # <<>> =>
          /\ burst.runs = 1 - resizeTimer
          /\ innerWidth = burst.widths[Len(burst.widths)]
          /\ burst.runs = 1 =>
                /\ rlast.op = "handleResize" /\ rlast.arg = "timer"
                /\ rlast.pre.innerWidth = innerWidth
                /\ currentDevice = DetectDevice(innerWidth)
                /\ (rlast.applied = <<>>) <=>
                       (DetectDevice(innerWidth) = burst.from)

\* C16: every resize event cancels the pending timeout and starts a new one,
\* so a burst causes one handleResize run, after its last event and on its
\* final width; a burst that ends in the recorded band applies no policy; and
\* once resize events stop, the recorded class becomes that of the final width.
C16_Debounce ==
    /\ []C16_OneRunPerBurst
    /\ \A w \in Widths :
          <>[](rmReady /\ innerWidth = w) => <>[](currentDevice = DetectDevice(w))

\* a burst from desktop through mobile back to desktop, its run done
C16_Witness ==
    /\ burst = [from |-> "desktop", widths |-> <<320, 1920>>, runs |-> 1]
    /\ rlast.op = "handleResize" /\ rlast.applied = <<>>
    /\ rlast.prev.applied = <<>>
    /\ currentDevice = "desktop" /\ body = {"desktop-device"}

\* C17: in every state after init, a pending resize timeout or not, the
\* recorded class is the class of the current width.
C17_ClassOfWidth ==
    rmReady => currentDevice = DetectDevice(innerWidth)

ValidStored == {Null} \cup Themes

\* C18: no operation writes a stored value other than light or dark; a page
\* loaded with an unrecognized stored value initializes to light, and its
\* managers follow an OS change as they do with no stored value.
C18_StoredValid ==
    /\ (last.op # "none" /\ stored # last.pre.stored) => stored \in ValidStored
    /\ (last.op # "none" /\ last.pre.stored \notin ValidStored) =>
          /\ (last.op = "init" /\ last2.op = "none") =>
                \A m \in Loaded : GetCurrentTheme(PageState, m) = "light"
          /\ last.op = "osChange" =>
                \A m \in Listening : GetCurrentTheme(PageState, m) = last.theme

\* C19: while the page was loaded with no stored value and the user has
\* called nothing, every OS change sets the theme of every listening manager
\* to the OS value.
C19_FollowsOS ==
    (last.op = "osChange" /\ noChoice) =>
        \A m \in Listening : GetCurrentTheme(PageState, m) = last.theme

\* C20: reset() leaves the theme light and no stored value, an OS change to
\* dark right after it is followed, and only reset() removes a stored value.
C20_ResetClears ==
    /\ last.op = "reset" =>
          /\ GetCurrentTheme(PageState, TJ) = "light"
          /\ stored = Null
    /\ (last.op = "osChange" /\ last.theme = "dark" /\ last2.op = "reset") =>
          \A m \in Listening : GetCurrentTheme(PageState, m) = "dark"
    /\ (stored = Null /\ last.pre.stored # Null) => last.op = "reset"

\* C21: whichever of sidebar, overlay and mobile toggle the page lacks, the
\* last layout operation or event handler raised no error, and an element
\* that does not exist has no state.
C21_MissingTargetsAbsorbed ==
    /\ rlast.threw = "none"
    /\ "sidebar" \notin elements => ~sidebarOpen /\ "sidebar-open" \notin body
    /\ "overlay" \notin elements => ~overlayVisible

====
